---- MODULE Spec2Model ----
(***************************************************************************)
(* Model of neurotune's candidate-evaluation pipeline:                     *)
(*   neurotune/simulation/nineline.py  (NineLineSimulation)                *)
(*   neurotune/tuner/__init__.py       (Tuner, EvaluationException)        *)
(*                                                                         *)
(* Python strings are sequences of atoms, "." being the separator atom,    *)
(* so that str.split('.') and the "'.' in name" test are computed, not     *)
(* assumed.  Values that may be None, a string or a tuple are tagged       *)
(* records [t, v].                                                         *)
(***************************************************************************)
EXTENDS Integers, Sequences, FiniteSets, TLC

VARIABLES
    debug,            \* __debug__ : TRUE = strict mode, FALSE = python -O
    save_recordings,  \* Tuner.save_recordings (None or a directory)
    default_seg,      \* NineLineSimulation.default_seg
    tune_parameters,  \* Tuner.tune_parameters
    genome_keys,      \* NineLineSimulation.genome_keys
    log_scales,       \* NineLineSimulation.log_scales
    setups,           \* NineLineSimulation._simulation_setups
    cell,             \* NineLineSimulation.cell (0 while the attribute is unset)
    cells,            \* the engine instances alive in the process, by id
    fresh,            \* instance returned by celltype() and not yet bound
    pc,               \* position of the running call
    caller,           \* which operation entered _prepare / the batch
    batch,            \* candidates passed to _evaluate_all_candidates
    i,                \* index of the candidate being evaluated
    s,                \* index of the setup being run for this candidate
    segs,             \* segments returned so far for this candidate
    recordings,       \* the local `recordings` of _evaluate_candidate
    exc,              \* the exception in flight
    results,          \* fitness values collected by the list comprehension
    outcome,          \* how the last top-level call ended
    log,              \* engine calls made for the current candidate
    recLog,           \* what simulation.run returned, per candidate
    files,            \* files written to the save_recordings directory
    calls             \* number of _evaluate_all_candidates calls made

vars == <<debug, save_recordings, default_seg, tune_parameters, genome_keys,
          log_scales, setups, cell, cells, fresh, pc, caller, batch,
          i, s, segs, recordings, exc, results, outcome, log, recLog, files,
          calls>>

----------------------------------------------------------------------------
(* Bounds *)

MaxParams == 2      \* longest tune_parameters list
MaxLen == 2         \* longest candidate
MaxBatch == 2       \* longest batch of candidates

----------------------------------------------------------------------------
(* Python values *)

None == [t |-> "None", v |-> <<>>]
Str(str) == [t |-> "str", v |-> str]
Tuple3(a, b, c) == [t |-> "tuple", v |-> <<a, b, c>>]

Min(a, b) == IF a <= b THEN a ELSE b

RECURSIVE Split(_)
\* str.split('.')
Split(str) ==
    IF \A k \in 1..Len(str) : str[k] # "."
    THEN <<str>>
    ELSE LET k == CHOOSE k \in 1..Len(str) :
                      str[k] = "." /\ \A m \in 1..(k - 1) : str[m] # "."
         IN <<SubSeq(str, 1, k - 1)>> \o Split(SubSeq(str, k + 1, Len(str)))

\* '.' in str
HasDot(str) == \E k \in 1..Len(str) : str[k] = "."

\* 10 ** val
TenPow(val) == 10 ^ val

SeqsUpTo(S, n) == UNION {[1..m -> S] : m \in 0..n}
----------------------------------------------------------------------------
(* Inputs of a session *)

Vals == {1, 2}
\* candidates whose values differ from one index to the next
Candidates == {[k \in 1..n |-> v + k - 1] : n \in 0..MaxLen, v \in Vals}
Batches == SeqsUpTo(Candidates, MaxBatch)

TuneParameter(name, log_scale) == [name |-> name, log_scale |-> log_scale]

TuneParams ==
    { TuneParameter(<<"gNa">>, FALSE),
      TuneParameter(<<"soma", ".", "gNa">>, TRUE),
      TuneParameter(<<"axon", ".", "gKv">>, TRUE) }

\* lists that register no parameter twice
ParamLists ==
    {ps \in SeqsUpTo(TuneParams, MaxParams) :
        \A a, b \in 1..Len(ps) : a # b => ps[a] # ps[b]}

Ms(n) == [mag |-> n, unit |-> "ms"]
Sec(n) == [mag |-> n, unit |-> "s"]

Setup(record_variables, record_time) ==
    [record_variables |-> record_variables, record_time |-> record_time]

\* The requests an objective may hand to process_requests, grouped by setup
SetupConfigs ==
    { <<Setup(<<None, Str(<<"axon", ".", "Na", ".", "gNa">>)>>, Ms(5))>>,
      <<Setup(<<>>, Ms(5))>>,
      <<Setup(<<Str(<<"gNa">>), Str(<<"a", ".", "b", ".", "c", ".", "d">>)>>,
              Ms(5))>>,
      <<Setup(<<Str(<<"gNa">>)>>, Ms(5)),
        Setup(<<Str(<<"axon", ".", "gKv">>), None>>, Sec(1))>> }

Objective == "objective"
Directory == Str(<<"recordings">>)

----------------------------------------------------------------------------
(* NineLineSimulation.set_tune_parameters *)

\* a registry that prefixes every name with the default segment
GenomeKeyAlwaysPrefixed(seg, param) == seg \o <<".">> \o param.name

GenomeKey(seg, param) ==
    IF HasDot(param.name) THEN param.name ELSE seg \o <<".">> \o param.name

GenomeKeysOf(seg, params) == [k \in 1..Len(params) |-> GenomeKey(seg, params[k])]

LogScalesOf(params) == [k \in 1..Len(params) |-> params[k].log_scale]

----------------------------------------------------------------------------
(* The engine: instances made by celltype() and the simulation controller *)

NoCell == 0

BlankCell == [recorders |-> <<>>, attrs |-> <<>>]

\* the identity of a new instance: one no live instance has
NewCell(cs) ==
    CHOOSE c \in 1..(Cardinality(DOMAIN cs) + 1) :
        /\ c \notin DOMAIN cs
        /\ \A d \in 1..(c - 1) : d \in DOMAIN cs

\* the instances still referenced once self.cell is rebound from old to new
Release(cs, old) == [c \in (DOMAIN cs) \ {old} |-> cs[c]]

\* setattr(cell, key, val) on the attribute list of an instance
SetAttr(attrs, key, val) ==
    IF \E k \in 1..Len(attrs) : attrs[k].key = key
    THEN [k \in 1..Len(attrs) |->
             IF attrs[k].key = key THEN [key |-> key, val |-> val] ELSE attrs[k]]
    ELSE Append(attrs, [key |-> key, val |-> val])

\* float(pq.Quantity(record_time, units='ms'))
RecordTimeMs(record_time) ==
    IF record_time.unit = "s" THEN 1000 * record_time.mag ELSE record_time.mag

Event(op, key, val) == [op |-> op, key |-> key, val |-> val]

----------------------------------------------------------------------------
(* NineLineSimulation.prepare_simulations: the resolution loop *)

Resolved(val) == [ok |-> TRUE, val |-> val, err |-> "none"]
Failed(err) == [ok |-> FALSE, val |-> None, err |-> err]

\* a resolver that takes a one-dot request as variable.location
ResolveRecSwapped(seg, rec) ==
    IF rec.t = "None"
    THEN Resolved(Tuple3(Str(<<"v">>), Str(seg), None))
    ELSE IF rec.t = "tuple"
    THEN Failed("AttributeError")
    ELSE LET parts == Split(rec.v) IN
         IF Len(parts) = 1
         THEN Resolved(Tuple3(Str(parts[1]), Str(seg), None))
         ELSE IF Len(parts) = 2
         THEN Resolved(Tuple3(Str(parts[1]), Str(parts[2]), None))
         ELSE IF Len(parts) = 3
         THEN Resolved(Tuple3(Str(parts[3]), Str(parts[1]), Str(parts[2])))
         ELSE Failed("ValueError")

\* the body of the inner loop for one entry of setup.record_variables
ResolveRec(seg, rec) ==
    IF rec.t = "None"
    THEN Resolved(Tuple3(Str(<<"v">>), Str(seg), None))
    ELSE IF rec.t = "tuple"
    THEN Failed("AttributeError")           \* a tuple has no split
    ELSE LET parts == Split(rec.v) IN
         IF Len(parts) = 1
         THEN Resolved(Tuple3(Str(parts[1]), Str(seg), None))
         ELSE IF Len(parts) = 2
         THEN Resolved(Tuple3(Str(parts[2]), Str(parts[1]), None))
         ELSE IF Len(parts) = 3
         THEN Resolved(Tuple3(Str(parts[3]), Str(parts[1]), Str(parts[2])))
         ELSE Failed("ValueError")          \* segname, component, var = parts

RECURSIVE ResolveFrom(_, _, _, _)
\* the two nested loops, from entry j of setup k on; entries are replaced in
\* place, so what was resolved before an error stays resolved
ResolveFrom(seg, sts, k, j) ==
    IF k > Len(sts)
    THEN [setups |-> sts, err |-> "none"]
    ELSE IF j > Len(sts[k].record_variables)
    THEN ResolveFrom(seg, sts, k + 1, 1)
    ELSE LET r == ResolveRec(seg, sts[k].record_variables[j]) IN
         IF r.ok
         THEN ResolveFrom(seg,
                          [sts EXCEPT ![k].record_variables[j] = r.val],
                          k, j + 1)
         ELSE [setups |-> sts, err |-> r.err]

----------------------------------------------------------------------------
(* How a top-level call ended *)

NoRecordings == [t |-> "unbound", v |-> <<>>]
Recordings(sgs) == [t |-> "recordings", v |-> sgs]
NoException == "none"
NoOutcome == [kind |-> "none", err |-> "none", ee |-> <<>>]
Returned == [kind |-> "returned", err |-> "none", ee |-> <<>>]
Raised(err) == [kind |-> "raised", err |-> err, ee |-> <<>>]

----------------------------------------------------------------------------
(* The state after NineLineSimulation.__init__ and Tuner.__init__ *)

Init ==
    /\ debug \in BOOLEAN
    /\ save_recordings \in {None, Directory}
    /\ default_seg = <<"soma">>
    /\ tune_parameters \in ParamLists
    /\ genome_keys = GenomeKeysOf(default_seg, tune_parameters)
    /\ log_scales = LogScalesOf(tune_parameters)
    /\ setups \in SetupConfigs
    /\ cell = NoCell
    /\ cells = <<>>           \* the instance __init__ read default_seg from is gone
    /\ fresh = NoCell
    /\ pc = "idle"
    /\ caller = "none"
    /\ batch = <<>>
    /\ i = 0
    /\ s = 0
    /\ segs = <<>>
    /\ recordings = NoRecordings
    /\ exc = NoException
    /\ results = <<>>
    /\ outcome = NoOutcome
    /\ log = <<>>
    /\ recLog = <<>>
    /\ files = {}
    /\ calls = 0

session == <<debug, save_recordings, default_seg, tune_parameters, genome_keys,
             log_scales>>
frame == <<batch, i, s, segs, recordings, results, recLog>>

\* an exception leaves the running call: inside _evaluate_candidate it is
\* caught by the except clause, elsewhere it reaches the caller
Throw(err) ==
    IF caller = "evaluate"
    THEN /\ pc' = "except"
         /\ exc' = err
         /\ UNCHANGED outcome
    ELSE /\ pc' = "idle"
         /\ exc' = NoException
         /\ outcome' = Raised(err)

----------------------------------------------------------------------------
(* Tuner.set, lines 44 and 54: the list is stored and handed to
   NineLineSimulation.set_tune_parameters, which starts genome_keys and
   log_scales from empty lists.  Registration precedes the batch. *)

SetTuneParameters(params) ==
    /\ tune_parameters' = params
    /\ genome_keys' = GenomeKeysOf(default_seg, params)
    /\ log_scales' = LogScalesOf(params)
    /\ caller' = "set_tune_parameters"
    /\ outcome' = Returned
    /\ UNCHANGED <<debug, save_recordings, default_seg, setups, cell, cells,
                   fresh, pc, frame, exc, log, files, calls>>

Register ==
    /\ pc = "idle"
    /\ calls = 0
    /\ \E params \in ParamLists : SetTuneParameters(params)

----------------------------------------------------------------------------
(* NineLineSimulation.prepare_simulations *)

\* the test of the number of setups, inverted
SingleSetupInverted(sts) == Len(sts) # 1

\* len(self._simulation_setups) == 1: the instance can be kept between runs
SingleSetup(sts) == Len(sts) = 1

PrepareSimulations ==
    /\ pc = "idle"
    /\ LET r == ResolveFrom(default_seg, setups, 1, 1) IN
       /\ setups' = r.setups
       /\ caller' = "prepare_simulations"
       /\ IF r.err # "none"
          THEN /\ pc' = "idle"
               /\ outcome' = Raised(r.err)
          ELSE IF SingleSetup(setups)
          THEN /\ pc' = "prepare"
               /\ outcome' = NoOutcome
          ELSE /\ pc' = "idle"
               /\ outcome' = Returned
    /\ s' = IF SingleSetup(setups) THEN 1 ELSE 0
    /\ log' = <<>>
    /\ UNCHANGED <<session, cell, cells, fresh, batch, i, segs,
                   recordings, exc, results, recLog, files, calls>>

----------------------------------------------------------------------------
(* NineLineSimulation._prepare, in two steps: celltype() returns the new
   instance, then the assignment rebinds self.cell and the loop attaches the
   recorders *)

PrepareNew ==
    /\ pc = "prepare"
    /\ fresh' = NewCell(cells)
    /\ cells' = (NewCell(cells) :> BlankCell) @@ cells
    /\ log' = Append(log, Event("celltype", <<>>, NewCell(cells)))
    /\ pc' = "bind"
    /\ UNCHANGED <<session, setups, cell, caller, frame, exc, outcome, files,
                   calls>>

\* cell.record(*rec): the engine is written for a resolved triple; an
\* unresolved string is spread into its characters, which the engine may
\* take or reject, and None cannot be spread at all
Recordable(rec) == rec.t \in {"tuple", "str"}
Rejectable(rec) == rec.t \in {"None", "str"}

\* the loop over record_variables, missing its first entry
AttachRecordersSkipFirst(rv, k) ==
    SubSeq(rv, 2, IF k = 0 THEN Len(rv) ELSE k - 1)

\* the recorders attached when the loop stops at entry k (0: it ran through)
AttachRecorders(rv, k) == IF k = 0 THEN rv ELSE SubSeq(rv, 1, k - 1)

PrepareBind ==
    /\ pc = "bind"
    /\ cell' = fresh
    /\ fresh' = NoCell
    /\ LET rv == setups[s].record_variables
           kept == Release(cells, cell)
       IN \E k \in 0..Len(rv) :
            /\ \A m \in 1..(IF k = 0 THEN Len(rv) ELSE k - 1) : Recordable(rv[m])
            /\ k > 0 => Rejectable(rv[k])
            /\ cells' = [kept EXCEPT ![fresh].recorders = AttachRecorders(rv, k)]
            /\ IF k > 0
               THEN Throw("TypeError")
               ELSE /\ pc' = IF caller = "evaluate" THEN "set_params" ELSE "idle"
                    /\ outcome' = IF caller = "evaluate" THEN outcome ELSE Returned
                    /\ UNCHANGED exc
    /\ log' = Append(log, Event("bind", <<>>, fresh))
    /\ UNCHANGED <<session, setups, caller, frame, files, calls>>

----------------------------------------------------------------------------
(* Tuner._evaluate_all_candidates: the list comprehension *)

\* A session is followed up to the end of its first batch: a later batch meets
\* the engine as a longer first batch leaves it.

\* Simulation.run(candidate) as the tuner calls it runs the candidate against
\* the registered setups in turn
LastSetup(k, sts) == k >= Len(sts)

EvaluateAllCandidates(candidates) ==
    /\ pc = "idle"
    /\ calls = 0
    /\ calls' = calls + 1
    /\ caller' = "evaluate"
    /\ batch' = candidates
    /\ results' = <<>>
    /\ recLog' = <<>>
    /\ log' = <<>>
    /\ segs' = <<>>
    /\ recordings' = NoRecordings
    /\ exc' = NoException
    /\ IF candidates = <<>>
       THEN /\ i' = 0
            /\ s' = 0
            /\ pc' = "idle"
            /\ outcome' = Returned
       ELSE /\ i' = 1
            /\ s' = 1
            /\ pc' = "ready"
            /\ outcome' = NoOutcome
    /\ UNCHANGED <<session, setups, cell, cells, fresh, files>>

\* the optimisation algorithm hands a batch to the callback
EvaluateBatch ==
    /\ pc = "idle"
    /\ calls = 0
    /\ \E candidates \in Batches : EvaluateAllCandidates(candidates)

----------------------------------------------------------------------------
(* NineLineSimulation.run *)

\* lines 79-82: a fresh instance unless there is exactly one setup
RunReady ==
    /\ pc = "ready"
    /\ IF ~SingleSetup(setups)
       THEN /\ pc' = "prepare"
            /\ UNCHANGED log
       ELSE /\ pc' = "set_params"
            /\ log' = Append(log, Event("reset", <<>>, 0))
    /\ UNCHANGED <<session, setups, cell, cells, fresh, caller, frame,
                   exc, outcome, files, calls>>

Effective(val, log_scale) == IF log_scale THEN TenPow(val) ELSE val

\* zip(genome_keys, candidate, log_scales) stops at the shortest of the three
ZipLen(keys, candidate, logs) == Min(Min(Len(keys), Len(candidate)), Len(logs))

\* the check the assert statement makes; python -O compiles the statement away
AssertLength(dbg, candidate, keys) == dbg => Len(candidate) = Len(keys)

RECURSIVE ApplyParams(_, _, _, _, _)
\* the attributes after the first n iterations of the loop
ApplyParams(attrs, keys, candidate, logs, n) ==
    IF n = 0
    THEN attrs
    ELSE SetAttr(ApplyParams(attrs, keys, candidate, logs, n - 1),
                 keys[n], Effective(candidate[n], logs[n]))

SetAttrEvents(keys, candidate, logs, n) ==
    [k \in 1..n |-> Event("setattr", keys[k], Effective(candidate[k], logs[k]))]

SetCandidateParams ==
    /\ pc = "set_params"
    /\ LET candidate == batch[i]
           n == ZipLen(genome_keys, candidate, log_scales)
       IN IF ~AssertLength(debug, candidate, genome_keys)
          THEN /\ Throw("AssertionError")
               /\ UNCHANGED <<cells, log>>
          ELSE IF n > 0 /\ cell = NoCell
          THEN /\ Throw("AttributeError")        \* self.cell was never bound
               /\ UNCHANGED <<cells, log>>
          ELSE \E k \in 0..n :
                 LET done == IF k = 0 THEN n ELSE k - 1 IN
                 /\ cells' = IF done = 0 THEN cells ELSE
                        [cells EXCEPT ![cell].attrs =
                            ApplyParams(@, genome_keys, candidate, log_scales, done)]
                 /\ log' = log \o SetAttrEvents(genome_keys, candidate, log_scales, done)
                 /\ IF k > 0
                    THEN Throw("EngineError")    \* the engine rejects setattr k
                    ELSE /\ pc' = "ctl_run"
                         /\ UNCHANGED <<exc, outcome>>
    /\ UNCHANGED <<session, setups, cell, fresh, caller, frame, files,
                   calls>>

\* nineline_controller.run(record_time)
ControllerRun ==
    /\ pc = "ctl_run"
    /\ \E ok \in BOOLEAN :
         IF ok
         THEN /\ pc' = "get_rec"
              /\ log' = Append(log, Event("run", <<>>,
                                          RecordTimeMs(setups[s].record_time)))
              /\ UNCHANGED <<exc, outcome>>
         ELSE /\ Throw("EngineError")
              /\ UNCHANGED log
    /\ UNCHANGED <<session, setups, cell, cells, fresh, caller, frame,
                   files, calls>>

\* what the instance recorded: the sites asked for, under the attributes the
\* run was made with, for the time it ran
Segment(sites, attrs, ms) == [sites |-> sites, attrs |-> attrs, time |-> ms]

\* lines 89-92, and the return to _evaluate_candidate after the last setup
GetRecording ==
    /\ pc = "get_rec"
    /\ LET rv == setups[s].record_variables IN
       IF cell = NoCell
       THEN /\ Throw("AttributeError")
            /\ UNCHANGED <<s, segs, recordings, recLog, log>>
       ELSE \E ok \in BOOLEAN :
         IF ok
         THEN /\ \A m \in 1..Len(rv) : Recordable(rv[m])
              /\ LET seg == Segment(rv, cells[cell].attrs,
                                    RecordTimeMs(setups[s].record_time))
                 IN /\ log' = Append(log, Event("get_recording", <<>>, 0))
                    /\ IF LastSetup(s, setups)
                       THEN /\ recordings' = Recordings(Append(segs, seg))
                            /\ recLog' = Append(recLog,
                                   [candidate |-> batch[i],
                                    recordings |-> Recordings(Append(segs, seg))])
                            /\ pc' = "save"
                            /\ UNCHANGED <<s, segs>>
                       ELSE /\ segs' = Append(segs, seg)
                            /\ s' = s + 1
                            /\ pc' = "ready"
                            /\ UNCHANGED <<recordings, recLog>>
                    /\ UNCHANGED <<exc, outcome>>
         ELSE /\ Throw(IF \E m \in 1..Len(rv) : rv[m].t = "None"
                       THEN "TypeError" ELSE "EngineError")
              /\ UNCHANGED <<s, segs, recordings, recLog, log>>
    /\ UNCHANGED <<session, setups, cell, cells, fresh, caller, batch,
                   i, results, files, calls>>

----------------------------------------------------------------------------
(* Tuner._evaluate_candidate: persistence, scoring and the except clause *)

\* zip(self.tune_parameters, candidate)
NamedValues(params, candidate) == Min(Len(params), Len(candidate))

\* lines 74-78: p.name + '=' + c adds a float to a string, which raises
\* TypeError for the first pair; with no pair the file is named '.pkl'
SaveRecordings ==
    /\ pc = "save"
    /\ IF save_recordings = None
       THEN /\ pc' = "fitness"
            /\ UNCHANGED <<files, log, exc, outcome>>
       ELSE IF NamedValues(tune_parameters, batch[i]) > 0
       THEN /\ Throw("TypeError")
            /\ UNCHANGED <<files, log>>
       ELSE /\ files' = files \cup {[name |-> <<".pkl">>,
                                     candidate |-> batch[i],
                                     recordings |-> recordings]}
            /\ log' = Append(log, Event("dump", <<".pkl">>, 0))
            /\ pc' = "fitness"
            /\ UNCHANGED <<exc, outcome>>
    /\ UNCHANGED <<session, setups, cell, cells, fresh, caller, frame,
                   calls>>

RECURSIVE AttrScore(_)
AttrScore(attrs) ==
    IF attrs = <<>> THEN 0
    ELSE attrs[Len(attrs)].val + 1000 * AttrScore(SubSeq(attrs, 1, Len(attrs) - 1))

RECURSIVE SegScore(_)
SegScore(sgs) ==
    IF sgs = <<>> THEN 0
    ELSE AttrScore(sgs[Len(sgs)].attrs) + sgs[Len(sgs)].time
           + SegScore(SubSeq(sgs, 1, Len(sgs) - 1))

\* objective.fitness(recordings): a scalar that depends on the signals only
ObjectiveFitness(recs) == SegScore(recs.v)

\* a list built by pushing each fitness to the front
CollectReversed(res, fitness) == <<fitness>> \o res

\* the list the comprehension builds, one fitness after the other
Collect(res, fitness) == Append(res, fitness)

\* line 79 and the return into the list comprehension, which then takes the
\* next candidate
Fitness ==
    /\ pc = "fitness"
    /\ \E ok \in BOOLEAN :
         IF ok
         THEN /\ results' = Collect(results, ObjectiveFitness(recordings))
              /\ IF i < Len(batch)
                 THEN /\ i' = i + 1
                      /\ s' = 1
                      /\ segs' = <<>>
                      /\ recordings' = NoRecordings
                      /\ log' = <<>>
                      /\ pc' = "ready"
                      /\ UNCHANGED outcome
                 ELSE /\ pc' = "idle"
                      /\ outcome' = Returned
                      /\ UNCHANGED <<i, s, segs, recordings, log>>
              /\ UNCHANGED exc
         ELSE /\ Throw("ObjectiveError")
              /\ UNCHANGED <<results, i, s, segs, recordings, log>>
    /\ UNCHANGED <<session, setups, cell, cells, fresh, caller, batch,
                   recLog, files, calls>>

\* traceback.format_exc(), for the exception being handled
FormatExc(err) ==
    IF err = NoException THEN Str(<<"None">>) ELSE Str(<<"Traceback", err>>)

\* an __init__ that stores tback as given, without the format_exc() default
EvaluationExceptionNoDefault(objective, candidate, recs, tback) ==
    [objective |-> objective,
     candidate |-> candidate,
     recordings |-> recs,
     traceback |-> tback]

\* EvaluationException.__init__
EvaluationException(objective, candidate, recs, tback) ==
    [objective |-> objective,
     candidate |-> candidate,
     recordings |-> recs,
     traceback |-> IF tback # None THEN tback ELSE FormatExc(exc)]

\* an except clause that always forgets the recordings
RecordingsDropped(recs) == None

\* lines 85-86: 'recordings' not in locals()
RecordingsOrNone(recs) == IF recs.t = "unbound" THEN None ELSE recs

\* lines 80-87; what is raised leaves the list comprehension as well, no
\* caller inside the tuner catches it
Except ==
    /\ pc = "except"
    /\ pc' = "idle"
    /\ outcome' =
         IF debug
         THEN Raised(exc)
         ELSE [kind |-> "raised", err |-> "EvaluationException",
               ee |-> <<EvaluationException(Objective, batch[i],
                                            RecordingsOrNone(recordings), None)>>]
    /\ UNCHANGED <<session, setups, cell, cells, fresh, caller, frame,
                   exc, log, files, calls>>

----------------------------------------------------------------------------

Next ==
    \/ Register
    \/ PrepareSimulations
    \/ PrepareNew
    \/ PrepareBind
    \/ EvaluateBatch
    \/ RunReady
    \/ SetCandidateParams
    \/ ControllerRun
    \/ GetRecording
    \/ SaveRecordings
    \/ Fitness
    \/ Except

Spec == Init /\ [][Next]_vars

----------------------------------------------------------------------------
(* Vocabulary of the properties *)

\* a batch call has ended
BatchEnded == pc = "idle" /\ caller = "evaluate" /\ outcome.kind # "none"

\* a candidate of the batch is being, or was last, evaluated
Evaluating == caller = "evaluate" /\ i \in 1..Len(batch)

\* prepare_simulations did its work before the batch: every request is a
\* resolved triple and, with one setup, the instance is bound
SessionPrepared ==
    /\ \A k \in 1..Len(setups) :
         \A j \in 1..Len(setups[k].record_variables) :
            setups[k].record_variables[j].t = "tuple"
    /\ Len(setups) = 1 => cell # NoCell

\* getattr(cell, key) == val
HasAttr(attrs, key, val) ==
    \E k \in 1..Len(attrs) : attrs[k].key = key /\ attrs[k].val = val

\* the engine calls of the run in progress: the log after the last reset or
\* rebinding of self.cell
RunStart ==
    IF \E k \in 1..Len(log) : log[k].op \in {"reset", "bind"}
    THEN CHOOSE k \in 1..Len(log) :
            /\ log[k].op \in {"reset", "bind"}
            /\ \A m \in (k + 1)..Len(log) : log[m].op \notin {"reset", "bind"}
    ELSE 0

CountOps(ops, from) ==
    Cardinality({k \in (from + 1)..Len(log) : log[k].op \in ops})

TimesSet(key) ==
    Cardinality({k \in (RunStart + 1)..Len(log) :
                    log[k].op = "setattr" /\ log[k].key = key})

Mismatched(candidate) == Len(candidate) # Len(genome_keys)

----------------------------------------------------------------------------
(* C1 *)

\* C1: when a candidate of a batch fails in a prepared session, strict mode evaluates no later
\* candidate, and non-strict mode abandons that candidate only: every later
\* candidate of the batch is still evaluated, so the batch ends at its last
\* candidate.
C1_FailureAbortsOnlyTheCandidate ==
    (BatchEnded /\ exc # NoException /\ SessionPrepared) =>
        IF debug
        THEN outcome.kind = "raised" /\ Len(results) = i - 1
        ELSE i = Len(batch)

----------------------------------------------------------------------------
(* C2 *)

\* C2: a batch whose evaluations all succeed returns as many fitness values as
\* it has candidates, the k-th being the objective's score of the recordings
\* the simulation returned for the k-th candidate.
C2_ResultsAligned ==
    (BatchEnded /\ outcome.kind = "returned") =>
        /\ Len(results) = Len(batch)
        /\ Len(recLog) = Len(batch)
        /\ \A k \in 1..Len(batch) :
             /\ recLog[k].candidate = batch[k]
             /\ results[k] = ObjectiveFitness(recLog[k].recordings)

C2_Witness ==
    /\ BatchEnded
    /\ outcome.kind = "returned"
    /\ Len(batch) = 2
    /\ batch[1] # batch[2]
    /\ results[1] # results[2]

----------------------------------------------------------------------------
(* C3 *)

\* C3: in a prepared session, a candidate whose length differs from the number of genome keys has no
\* parameter set on the instance and never has the engine advanced, and its
\* evaluation ends in an error, in strict and in non-strict mode.
C3_MismatchNeverApplied ==
    (Evaluating /\ Mismatched(batch[i]) /\ SessionPrepared) =>
        /\ \A k \in 1..Len(log) : log[k].op \notin {"setattr", "run"}
        /\ BatchEnded => outcome.kind = "raised"

----------------------------------------------------------------------------
(* C4 *)

\* C4: in a prepared session where nothing else fails, the evaluation of a
\* candidate of the wrong length ends by raising the assertion's own error to
\* the caller, never an EvaluationException and never a result, in either
\* mode.
C4_MismatchRaisedUnwrapped ==
    (/\ BatchEnded
     /\ i \in 1..Len(batch)
     /\ Mismatched(batch[i])
     /\ SessionPrepared
     /\ exc \in {NoException, "AssertionError"})
        => outcome = Raised("AssertionError")

----------------------------------------------------------------------------
(* C5 *)

\* C5: at most one engine instance is alive at any point of the run calls of a
\* prepared session, over one or several setups.
C5_AtMostOneInstance ==
    (caller = "evaluate" /\ SessionPrepared) => Cardinality(DOMAIN cells) <= 1

----------------------------------------------------------------------------
(* C6 *)

\* the run in progress has passed lines 79-82
PastReady == pc \in {"set_params", "ctl_run", "get_rec", "save", "fitness"}

C6_ResetFirst ==
    (Evaluating /\ Len(setups) = 1 /\ PastReady) =>
        /\ log # <<>>
        /\ log[1].op = "reset"
        /\ CountOps({"reset"}, 0) = 1
        /\ CountOps({"celltype", "bind"}, 0) = 0

C6_PreparedOnce ==
    (/\ pc = "idle"
     /\ caller = "prepare_simulations"
     /\ Len(setups) = 1
     /\ outcome.kind = "returned") =>
        /\ CountOps({"celltype"}, 0) = 1
        /\ cell # NoCell
        /\ log[Len(log)] = Event("bind", <<>>, cell)
        /\ DOMAIN cells = {cell}

C6_SameInstance ==
    (caller' = "evaluate" /\ Len(setups) = 1) =>
        /\ cell' = cell
        /\ fresh' = NoCell
        /\ DOMAIN cells' = DOMAIN cells

\* C6: with exactly one setup, prepare_simulations creates one instance and
\* binds it, no step of a batch evaluation creates or rebinds an instance (the
\* one prepare_simulations bound is the one every candidate runs on), and
\* every run resets the controller, once, before it applies the candidate.
C6_SingleSetupReuse ==
    [](C6_PreparedOnce /\ C6_ResetFirst) /\ [][C6_SameInstance]_vars

C6_Witness ==
    /\ Evaluating
    /\ Len(setups) = 1
    /\ i = 2
    /\ pc = "get_rec"
    /\ cell # NoCell
    /\ CountOps({"setattr"}, 0) > 0

----------------------------------------------------------------------------
(* C7 *)

SetupResolved(setup) ==
    \A j \in 1..Len(setup.record_variables) : setup.record_variables[j].t = "tuple"

C7_FreshInstancePerRun ==
    (Evaluating /\ Len(setups) # 1 /\ pc \in {"set_params", "ctl_run", "get_rec"}) =>
        /\ DOMAIN cells = {cell}
        /\ CountOps({"celltype"}, 0) = s
        /\ RunStart > 1
        /\ log[RunStart] = Event("bind", <<>>, cell)
        /\ log[RunStart - 1] = Event("celltype", <<>>, cell)
        /\ SetupResolved(setups[s]) =>
              cells[cell].recorders = setups[s].record_variables

C7_PrepareCreatesNone ==
    (pc = "idle" /\ caller' = "prepare_simulations" /\ Len(setups) # 1) =>
        /\ pc' = "idle"
        /\ cells' = cells
        /\ cell' = cell

C7_PreviousDiscarded ==
    (pc = "bind" /\ caller = "evaluate" /\ Len(setups) # 1) =>
        /\ cell' # cell
        /\ cell \notin DOMAIN cells'

\* C7: with several setups prepare_simulations creates no instance, and every
\* run works on an instance created in that run, the only one kept, whose
\* recorders are the resolved recording sites of the setup passed to the run.
C7_MultiSetupRecreate ==
    /\ [](C7_FreshInstancePerRun)
    /\ [][C7_PrepareCreatesNone /\ C7_PreviousDiscarded]_vars

C7_Witness ==
    /\ Evaluating
    /\ Len(setups) = 2
    /\ s = 2
    /\ pc = "set_params"
    /\ SetupResolved(setups[1])
    /\ SetupResolved(setups[2])
    /\ cells[cell].recorders = setups[2].record_variables
    /\ cells[cell].recorders # setups[1].record_variables

----------------------------------------------------------------------------
(* C8 *)

\* C8: when the engine fails while parameters are applied or while it runs,
\* non-strict mode raises an EvaluationException that carries the candidate
\* being evaluated, the tuner's objective and a non-empty trace; strict mode
\* raises the engine's error itself and builds no EvaluationException.
C8_EngineFailureWrapped ==
    (BatchEnded /\ exc = "EngineError") =>
        IF debug
        THEN outcome = Raised("EngineError")
        ELSE /\ outcome.kind = "raised"
             /\ outcome.err = "EvaluationException"
             /\ Len(outcome.ee) = 1
             /\ outcome.ee[1].candidate = batch[i]
             /\ outcome.ee[1].objective = Objective
             /\ outcome.ee[1].traceback.t = "str"
             /\ Len(outcome.ee[1].traceback.v) > 0

C8_Witness ==
    /\ BatchEnded
    /\ SessionPrepared
    /\ ~debug
    /\ exc = "EngineError"
    /\ CountOps({"setattr"}, 0) > 0
    /\ outcome.err = "EvaluationException"
    /\ outcome.ee[1].candidate = batch[i]
    /\ Len(batch[i]) = 2

----------------------------------------------------------------------------
(* C9 *)

\* C9: in non-strict mode the EvaluationException carries the recordings the
\* simulation returned when the failure came after the simulation returned
\* (saving or scoring), and None when the simulation itself failed.
C9_RecordingsKept ==
    (BatchEnded /\ outcome.err = "EvaluationException") =>
        /\ ~debug
        /\ IF Len(recLog) = i
           THEN outcome.ee[1].recordings = recLog[i].recordings
           ELSE outcome.ee[1].recordings = None

C9_Witness ==
    /\ BatchEnded
    /\ outcome.err = "EvaluationException"
    /\ exc = "ObjectiveError"
    /\ Len(recLog) = i
    /\ outcome.ee[1].recordings = recLog[i].recordings
    /\ outcome.ee[1].recordings.v # <<>>

----------------------------------------------------------------------------
(* C10 *)

\* no parameter name is registered twice
DistinctNames(params) ==
    \A a, b \in 1..Len(params) : a # b => params[a].name # params[b].name

\* C10: once _set_candidate_params has returned for a candidate of the right
\* length, whatever distinct names are registered, the instance holds, under every genome key, the transformed value
\* of the candidate at that key's index, and the run has set every genome key
\* exactly once.
C10_EveryKeySetOnce ==
    (/\ Evaluating
     /\ ~Mismatched(batch[i])
     /\ SessionPrepared
     /\ DistinctNames(tune_parameters)
     /\ pc = "ctl_run") =>
        \A k \in 1..Len(genome_keys) :
            /\ HasAttr(cells[cell].attrs, genome_keys[k],
                       Effective(batch[i][k], log_scales[k]))
            /\ TimesSet(genome_keys[k]) = 1

----------------------------------------------------------------------------
(* C11 *)

\* every request of every setup is a resolved triple
AllResolved(sts) == \A k \in 1..Len(sts) : SetupResolved(sts[k])

\* the step is a call of prepare_simulations
CallsPrepareSimulations == pc = "idle" /\ caller' = "prepare_simulations"

C11_SecondCall ==
    (CallsPrepareSimulations /\ AllResolved(setups)) =>
        /\ outcome'.kind # "raised"
        /\ setups' = setups

\* C11: a call of prepare_simulations on setups whose requests are all
\* resolved already succeeds and leaves every setup's record_variables as
\* the earlier call left them.
C11_ReResolveIdempotent == [][C11_SecondCall]_vars

----------------------------------------------------------------------------
(* C12 *)

Dots(str) == {k \in 1..Len(str) : str[k] = "."}

\* the request is one of the four forms of the grammar
Supported(rec) ==
    rec.t = "None" \/ (rec.t = "str" /\ Cardinality(Dots(rec.v)) <= 2)

AllSupported(sts) ==
    \A k \in 1..Len(sts) :
        \A j \in 1..Len(sts[k].record_variables) :
            Supported(sts[k].record_variables[j])

Before(str, d) == SubSeq(str, 1, d - 1)
After(str, d) == SubSeq(str, d + 1, Len(str))
Between(str, d, e) == SubSeq(str, d + 1, e - 1)

\* the triple (variable, location, component) the grammar gives a request
IsTripleOf(triple, rec, default_location) ==
    \/ /\ rec.t = "None"
       /\ triple = Tuple3(Str(<<"v">>), Str(default_location), None)
    \/ /\ rec.t = "str"
       /\ Dots(rec.v) = {}
       /\ triple = Tuple3(rec, Str(default_location), None)
    \/ /\ rec.t = "str"
       /\ \E d \in Dots(rec.v) :
            /\ Dots(rec.v) = {d}
            /\ triple = Tuple3(Str(After(rec.v, d)), Str(Before(rec.v, d)), None)
    \/ /\ rec.t = "str"
       /\ \E d, e \in Dots(rec.v) :
            /\ d < e
            /\ Dots(rec.v) = {d, e}
            /\ triple = Tuple3(Str(After(rec.v, e)), Str(Before(rec.v, d)),
                               Str(Between(rec.v, d, e)))

C12_Resolves ==
    (CallsPrepareSimulations /\ AllSupported(setups)) =>
        /\ outcome'.kind # "raised"
        /\ Len(setups') = Len(setups)
        /\ \A k \in 1..Len(setups) :
             LET old == setups[k].record_variables
                 new == setups'[k].record_variables
             IN /\ Len(new) = Len(old)
                /\ \A j \in 1..Len(old) : IsTripleOf(new[j], old[j], default_seg)

\* C12: prepare_simulations replaces, at the same index, every request of
\* every setup by its triple: an absent request by ("v", default, absent), a
\* request with no dot by (request, default, absent), "L.V" by (V, L, absent)
\* and "L.C.V" by (V, L, C); no setup gains, loses or reorders a request.
C12_ResolvesInPlace == [][C12_Resolves]_vars

C12_Witness ==
    /\ pc = "idle"
    /\ caller = "prepare_simulations"
    /\ outcome = Returned
    /\ setups =
         << Setup(<<Tuple3(Str(<<"gNa">>), Str(<<"soma">>), None)>>, Ms(5)),
            Setup(<<Tuple3(Str(<<"gKv">>), Str(<<"axon">>), None),
                    Tuple3(Str(<<"v">>), Str(<<"soma">>), None)>>, Sec(1)) >>

----------------------------------------------------------------------------
(* C13 *)

\* C13: genome_keys and log_scales always have the length of the registered
\* parameter list and are aligned with it, whatever was registered before:
\* the k-th key is the k-th name itself when the name holds a dot and the
\* default location, a dot and the name otherwise, and the k-th flag is the
\* k-th parameter's log_scale.
C13_RegistryAligned ==
    /\ Len(genome_keys) = Len(tune_parameters)
    /\ Len(log_scales) = Len(tune_parameters)
    /\ \A k \in 1..Len(tune_parameters) :
         LET name == tune_parameters[k].name IN
         /\ Dots(name) # {} => genome_keys[k] = name
         /\ Dots(name) = {} => genome_keys[k] = default_seg \o <<".">> \o name
         /\ log_scales[k] = tune_parameters[k].log_scale

\* a shorter list was registered after the instance was prepared, and holds
\* a bare and a dotted name
C13_Witness ==
    /\ caller = "set_tune_parameters"
    /\ cell # NoCell
    /\ Len(tune_parameters) = 2
    /\ genome_keys = << <<"axon", ".", "gKv">>, <<"soma", ".", "gNa">> >>
    /\ log_scales = <<TRUE, FALSE>>

----------------------------------------------------------------------------
(* C14 *)

\* simulation.run returned recordings for the candidate being evaluated
SimulationReturned == Evaluating /\ Len(recLog) = i

\* the evaluation of the candidate is past the persistence step
PastSave == pc \in {"fitness", "except", "idle"}

\* C14: in a prepared session with a persistence directory, once the
\* simulation of a candidate of the right length has returned and the
\* persistence step is over, the directory holds a file with that candidate
\* and its recordings, and the evaluation has not failed before the objective
\* was invoked; with no directory no file is ever written.
C14_SavedThenScored ==
    /\ save_recordings = None => files = {}
    /\ (/\ save_recordings # None
        /\ SessionPrepared
        /\ SimulationReturned
        /\ ~Mismatched(batch[i])
        /\ PastSave) =>
            /\ \E f \in files : /\ f.candidate = batch[i]
                                /\ f.recordings = recLog[i].recordings
            /\ exc \in {NoException, "ObjectiveError"}

----------------------------------------------------------------------------
(* C15 *)

\* C15: with a persistence directory, when the evaluation of a candidate has
\* ended in a failure the directory holds no file for that candidate, unless
\* an equal candidate was evaluated with success earlier in the batch.
C15_FileOnlyOnSuccess ==
    (/\ save_recordings # None
     /\ SessionPrepared
     /\ BatchEnded
     /\ outcome.kind = "raised"
     /\ i \in 1..Len(batch)) =>
        \A f \in files :
            f.candidate = batch[i] =>
                \E k \in 1..Len(results) : batch[k] = batch[i]

----------------------------------------------------------------------------
(* C16 *)

\* the engine calls of the current candidate, without the instance
\* identities and without the persistence step
EngineSteps ==
    LET calls_ == SelectSeq(log, LAMBDA e : e.op # "dump") IN
    [k \in 1..Len(calls_) |->
        IF calls_[k].op \in {"celltype", "bind"}
        THEN Event(calls_[k].op, <<>>, 0)
        ELSE calls_[k]]

\* making the instance ready: a reset with one setup, a new instance bound
\* otherwise
ReadySteps ==
    IF Len(setups) = 1
    THEN <<Event("reset", <<>>, 0)>>
    ELSE <<Event("celltype", <<>>, 0), Event("bind", <<>>, 0)>>

\* every value of the candidate applied, in index order
ApplySteps(candidate) ==
    [k \in 1..Len(candidate) |->
        IF k <= Len(genome_keys)
        THEN Event("setattr", genome_keys[k],
                   Effective(candidate[k], log_scales[k]))
        ELSE Event("setattr", <<"no key">>, candidate[k])]

RunSteps(candidate, setup) ==
    ReadySteps \o ApplySteps(candidate)
        \o <<Event("run", <<>>, RecordTimeMs(setup.record_time)),
             Event("get_recording", <<>>, 0)>>

RECURSIVE RunsSteps(_, _)
\* the steps of the runs against the first k setups
RunsSteps(candidate, k) ==
    IF k = 0 THEN <<>>
    ELSE RunsSteps(candidate, k - 1) \o RunSteps(candidate, setups[k])

\* the objective is invoked only after every step of every run, in order
C16_StepsBeforeObjective ==
    (Evaluating /\ pc = "fitness") =>
        EngineSteps = RunsSteps(batch[i], Len(setups))

\* the next candidate begins only when the objective has scored this one
C16_OneCandidateAtATime ==
    (i >= 1 /\ i' # i) =>
        /\ pc = "fitness"
        /\ i' = i + 1
        /\ Len(results') = i
        /\ pc' = "ready"
        /\ log' = <<>>

\* C16: when the objective is invoked for a candidate, the engine calls made
\* for it are, for each setup in turn, the instance made ready (a reset with
\* one setup, a new instance otherwise), every value of the candidate applied,
\* the engine advanced by that setup's record time and the recordings
\* collected, in this order and none missing; and the first step of the next
\* candidate is taken only after the objective has returned for this one.
C16_StepsInOrder ==
    [](C16_StepsBeforeObjective) /\ [][C16_OneCandidateAtATime]_vars

----------------------------------------------------------------------------
(* C17 *)

\* a request with more than three dot-delimited tokens
Unsupported(rec) == rec.t = "str" /\ Cardinality(Dots(rec.v)) > 2

HasUnsupported(sts) ==
    \E k \in 1..Len(sts) :
        \E j \in 1..Len(sts[k].record_variables) :
            Unsupported(sts[k].record_variables[j])

C17_Rejects ==
    (CallsPrepareSimulations /\ HasUnsupported(setups)) =>
        /\ outcome'.kind = "raised"
        /\ pc' = "idle"
        /\ HasUnsupported(setups')
        /\ cells' = cells
        /\ cell' = cell
        /\ setups' = setups

\* C17: a call of prepare_simulations on setups that hold a request of more
\* than three tokens raises an error, leaves that request unresolved, creates
\* no instance and leaves the record_variables of every setup as they were.
C17_RejectsUntouched == [][C17_Rejects]_vars

----------------------------------------------------------------------------
(* C18 *)

\* the value the instance holds under the key is a transformed value of the
\* candidate, coming from an index the loop pairs with that key
SetFrom(attrs, key, candidate) ==
    \E j \in 1..Len(candidate) :
        /\ j <= Len(genome_keys)
        /\ genome_keys[j] = key
        /\ HasAttr(attrs, key, Effective(candidate[j], log_scales[j]))

\* C18: in a prepared single-setup session, when the engine is about to be
\* advanced for a candidate that follows, on the same instance, one that set
\* every genome key, the instance holds under every genome key a transformed
\* value of the candidate being run and of no other one, in strict and in
\* non-strict mode.
C18_ValuesOfThisCandidate ==
    (/\ Evaluating
     /\ Len(setups) = 1
     /\ SessionPrepared
     /\ i > 1
     /\ ~Mismatched(batch[i - 1])
     /\ pc = "ctl_run") =>
        \A k \in 1..Len(genome_keys) :
            SetFrom(cells[cell].attrs, genome_keys[k], batch[i])

----------------------------------------------------------------------------
(* C19 *)

\* an instance is bound that carries recorders for exactly the resolved
\* triples of the setup being run
InstanceReady ==
    /\ cell # NoCell
    /\ SetupResolved(setups[s])
    /\ cells[cell].recorders = setups[s].record_variables

\* the run in progress has set a parameter or advanced the engine
EngineTouched ==
    /\ Evaluating
    /\ pc \in {"ctl_run", "get_rec", "except"}
    /\ CountOps({"setattr", "run"}, RunStart) > 0

\* C19: whatever calls of prepare_simulations came before, a run of a
\* candidate of the right length against a setup with recording requests that
\* has set a parameter or advanced the engine works on a bound instance whose
\* recorders are exactly the resolved triples of that setup; a run on a setup
\* that is not resolved sets nothing and advances nothing.
C19_NoRunWithoutRecorders ==
    (/\ EngineTouched
     /\ ~Mismatched(batch[i])
     /\ setups[s].record_variables # <<>>) => InstanceReady

====
